---- MODULE Spec2Model ----
(***************************************************************************)
(* Model of karminski/qwen-series: update_qwen_models.py                   *)
(* (HuggingFaceModelUpdater) and convert_csv_to_json.py.                   *)
(*                                                                         *)
(* Text is modelled character by character: a Python str is a sequence of  *)
(* one-character strings, so that the regular expressions, strptime and    *)
(* strftime of the source are computed and not assumed.                    *)
(***************************************************************************)
EXTENDS Integers, Sequences, FiniteSets, TLC

\* a local name for a value:  Let(e, LAMBDA x : body)  is body with x = e
Let(v, In(_)) == In(v)

(***************************************************************************)
(* Characters and the character classes of Python's re module.            *)
(***************************************************************************)
DigitChars == <<"0","1","2","3","4","5","6","7","8","9">>
UpperChars == <<"A","B","C","D","E","F","G","H","I","J","K","L","M",
                "N","O","P","Q","R","S","T","U","V","W","X","Y","Z">>
LowerChars == <<"a","b","c","d","e","f","g","h","i","j","k","l","m",
                "n","o","p","q","r","s","t","u","v","w","x","y","z">>

\* \d
DigitSet == {DigitChars[i] : i \in DOMAIN DigitChars}
IsDigit(c) == c \in DigitSet
\* [A-Za-z]
IsAlpha(c) == \E i \in DOMAIN UpperChars : UpperChars[i] = c \/ LowerChars[i] = c
\* \s
SpaceChars == {" ", "\t", "\n", "\r"}
IsSpace(c) == c \in SpaceChars
\* . (without re.DOTALL)
IsDot(c) == c # "\n"

DigitVal(c) == (CHOOSE i \in DOMAIN DigitChars : DigitChars[i] = c) - 1

\* str.lower() on one character; also the folding of re.IGNORECASE
ToLower(c) ==
  IF \E i \in DOMAIN UpperChars : UpperChars[i] = c
  THEN LowerChars[CHOOSE i \in DOMAIN UpperChars : UpperChars[i] = c]
  ELSE c

LowerStr(s) == [i \in DOMAIN s |-> ToLower(s[i])]

\* the character at position i, or "" past either end
At(s, i) == IF i \in DOMAIN s THEN s[i] ELSE ""

SetMin(S) == CHOOSE x \in S : \A y \in S : x <= y
SetMax(S) == CHOOSE x \in S : \A y \in S : x >= y

\* end (exclusive) of the longest run of Class characters starting at i
RunEnd(s, i, Class) ==
  SetMin({j \in i..(Len(s) + 1) : At(s, j) \notin Class})

\* n digits starting at i
DigitsAt(s, i, n) == \A k \in 0..(n - 1) : IsDigit(At(s, i + k))

\* a literal at position i, case-sensitive / under re.IGNORECASE
LitAt(s, i, lit) == \A k \in DOMAIN lit : At(s, i + k - 1) = lit[k]
LitAtCI(s, i, lit) == \A k \in DOMAIN lit : ToLower(At(s, i + k - 1)) = ToLower(lit[k])

\* the substring test  lit in s
Contains(s, lit) == \E i \in 1..(Len(s) + 1) : LitAt(s, i, lit)

\* Optional[str]: Python's None and a returned str
None == [ok |-> FALSE, v |-> <<>>]
Some(v) == [ok |-> TRUE, v |-> v]
\* truth value of an Optional[str], as in  if api_time:
Truthy(r) == r.ok /\ r.v # <<>>

(***************************************************************************)
(* datetime: calendar, strptime and strftime.                              *)
(***************************************************************************)
MonthAbbr == << <<"j","a","n">>, <<"f","e","b">>, <<"m","a","r">>, <<"a","p","r">>,
                <<"m","a","y">>, <<"j","u","n">>, <<"j","u","l">>, <<"a","u","g">>,
                <<"s","e","p">>, <<"o","c","t">>, <<"n","o","v">>, <<"d","e","c">> >>

IsLeap(y) == (y % 4 = 0 /\ y % 100 # 0) \/ y % 400 = 0

DaysInMonth(y, m) ==
  IF m = 2 THEN (IF IsLeap(y) THEN 29 ELSE 28)
  ELSE IF m \in {4, 6, 9, 11} THEN 30 ELSE 31

\* datetime(y, m, d) accepts the date (otherwise ValueError)
ValidDate(y, m, d) == y \in 1..9999 /\ m \in 1..12 /\ d \in 1..DaysInMonth(y, m)

\* the value of a run of digits
RECURSIVE NumVal(_)
NumVal(ds) == IF ds = <<>> THEN 0
              ELSE 10 * NumVal(SubSeq(ds, 1, Len(ds) - 1)) + DigitVal(ds[Len(ds)])

\* zero-padded decimal of width w
RECURSIVE Pad(_, _)
Pad(n, w) == IF w = 0 THEN <<>> ELSE Pad(n \div 10, w - 1) \o <<DigitChars[(n % 10) + 1]>>

\* dt.strftime("%Y-%m-%d"), for a year of four digits
strftime_ymd(dt) == Pad(dt.y, 4) \o <<"-">> \o Pad(dt.m, 2) \o <<"-">> \o Pad(dt.d, 2)

\* %b: month number of a three-letter abbreviation (case-insensitive), 0 if none
MonthOf(abbr) ==
  Let({m \in DOMAIN MonthAbbr : MonthAbbr[m] = LowerStr(abbr)},
      LAMBDA M : IF M = {} THEN 0 ELSE SetMin(M))

\* a number of one or two digits within 1..max, 0 if the digits are no such number
NumberUpTo(ds, max) ==
  IF Len(ds) \in 1..2 THEN Let(NumVal(ds), LAMBDA n : IF n \in 1..max THEN n ELSE 0)
  ELSE 0
\* %d: 1..31 written with one or two digits ("6", "06", "31")
DayOf(ds) == NumberUpTo(ds, 31)
\* %m: 1..12 written with one or two digits
MonOf(ds) == NumberUpTo(ds, 12)

\* the result of a strptime: a datetime, or ValueError
ValueError == [ok |-> FALSE, y |-> 0, m |-> 0, d |-> 0]
MkDate(y, m, d) == IF ValidDate(y, m, d) THEN [ok |-> TRUE, y |-> y, m |-> m, d |-> d]
                   ELSE ValueError

\* "<mon>\s+<day><sep>\s+<year>" with <sep> empty or a comma: the common part
\* of the two month-name formats. w, e and w2 are the ends of the runs.
MonthDayYear(s, sep) ==
  Let(RunEnd(s, 4, SpaceChars), LAMBDA w :
  Let(RunEnd(s, w, DigitSet), LAMBDA e :
  Let(RunEnd(s, e + Len(sep), SpaceChars), LAMBDA w2 :
    IF /\ Len(s) >= 3 /\ w > 4 /\ LitAt(s, e, sep) /\ w2 > e + Len(sep)
       /\ DigitsAt(s, w2, 4) /\ w2 + 4 = Len(s) + 1
    THEN MkDate(NumVal(SubSeq(s, w2, w2 + 3)), MonthOf(SubSeq(s, 1, 3)),
                DayOf(SubSeq(s, w, e - 1)))
    ELSE ValueError)))

\* datetime.strptime(s, "%b %d %Y")
strptime_b_d_Y(s) == MonthDayYear(s, <<>>)
\* datetime.strptime(s, "%b %d, %Y")
strptime_b_d_comma_Y(s) == MonthDayYear(s, <<",">>)

\* datetime.strptime(s, "%m/%d/%Y")
strptime_m_d_Y(s) ==
  Let(RunEnd(s, 1, DigitSet), LAMBDA e1 :
  Let(RunEnd(s, e1 + 1, DigitSet), LAMBDA e2 :
    IF /\ At(s, e1) = "/" /\ At(s, e2) = "/"
       /\ DigitsAt(s, e2 + 1, 4) /\ e2 + 5 = Len(s) + 1
    THEN MkDate(NumVal(SubSeq(s, e2 + 1, e2 + 4)), MonOf(SubSeq(s, 1, e1 - 1)),
                DayOf(SubSeq(s, e1 + 1, e2 - 1)))
    ELSE ValueError))

(***************************************************************************)
(* The regular expressions of extract_update_time_from_html.  An ...End    *)
(* operator gives the end (exclusive) of the match that starts at k, or 0. *)
(***************************************************************************)
\* [A-Za-z]{3}\s+\d{1,2}
MonDayEnd(s, k) ==
  Let(RunEnd(s, k + 3, SpaceChars), LAMBDA w :
    IF IsAlpha(At(s, k)) /\ IsAlpha(At(s, k + 1)) /\ IsAlpha(At(s, k + 2))
       /\ w > k + 3 /\ IsDigit(At(s, w))
    THEN (IF IsDigit(At(s, w + 1)) THEN w + 2 ELSE w + 1)
    ELSE 0)

\* ,\s+\d{4} at e: its end, or 0
CommaYearEnd(s, e) ==
  Let(RunEnd(s, e + 1, SpaceChars), LAMBDA w :
    IF e # 0 /\ At(s, e) = "," /\ w > e + 1 /\ DigitsAt(s, w, 4) THEN w + 4 ELSE 0)

\* [A-Za-z]{3}\s+\d{1,2},\s+\d{4}
MonDayYearEnd(s, k) == CommaYearEnd(s, MonDayEnd(s, k))

\* [A-Za-z]{3}\s+\d{1,2}(?:,\s+\d{4})?
MonDayOptYearEnd(s, k) ==
  Let(MonDayEnd(s, k), LAMBDA e :
  Let(CommaYearEnd(s, e), LAMBDA y : IF y # 0 THEN y ELSE e))

\* \d{4}-\d{2}-\d{2}
IsoEnd(s, k) ==
  IF DigitsAt(s, k, 4) /\ At(s, k + 4) = "-" /\ DigitsAt(s, k + 5, 2)
     /\ At(s, k + 7) = "-" /\ DigitsAt(s, k + 8, 2)
  THEN k + 10 ELSE 0

\* \d{1,2}/\d{1,2}/\d{4}: a and b are where the two slashes must be
SlashEnd(s, k) ==
  Let(IF IsDigit(At(s, k + 1)) THEN k + 2 ELSE k + 1, LAMBDA a :
  Let(IF IsDigit(At(s, a + 2)) THEN a + 3 ELSE a + 2, LAMBDA b :
    IF IsDigit(At(s, k)) /\ At(s, a) = "/" /\ IsDigit(At(s, a + 1)) /\ At(s, b) = "/"
       /\ DigitsAt(s, b + 1, 4)
    THEN b + 5 ELSE 0))

\* words separated and followed by \s+, under re.IGNORECASE: the position
\* after the last \s+, or 0
RECURSIVE KeywordEnd(_, _, _)
KeywordEnd(s, i, words) ==
  IF words = <<>> THEN i
  ELSE Let(RunEnd(s, i + Len(Head(words)), SpaceChars), LAMBDA sp :
         IF LitAtCI(s, i, Head(words)) /\ sp > i + Len(Head(words))
         THEN KeywordEnd(s, sp, Tail(words))
         ELSE 0)

W_Updated  == <<"U","p","d","a","t","e","d">>
W_Last     == <<"L","a","s","t">>
W_updated  == <<"u","p","d","a","t","e","d">>
W_Modified == <<"M","o","d","i","f","i","e","d">>
W_about    == <<"a","b","o","u","t">>
W_ago      == <<"a","g","o">>

\* the group of  <words>\s+(<group>)  matched at i: where it starts and ends,
\* [b |-> 0, e |-> 0] if there is no match at i
GroupEnd(s, k, optYear) ==
  IF optYear THEN MonDayOptYearEnd(s, k) ELSE MonDayEnd(s, k)

GroupAt(s, i, words, optYear) ==
  Let(KeywordEnd(s, i, words), LAMBDA k :
    IF k = 0 THEN [b |-> 0, e |-> 0]
    ELSE Let(GroupEnd(s, k, optYear), LAMBDA e :
           IF e = 0 THEN [b |-> 0, e |-> 0] ELSE [b |-> k, e |-> e]))

\* re.search of  <words>\s+(<group>) : group(1) of the leftmost match
SearchKeywordDate(s, words, optYear) ==
  Let({i \in DOMAIN s : GroupAt(s, i, words, optYear).b # 0}, LAMBDA I :
    IF I = {} THEN None
    ELSE Let(GroupAt(s, SetMin(I), words, optYear), LAMBDA g :
           Some(SubSeq(s, g.b, g.e - 1))))

\* \s+ago at q
WsAgoAt(s, q) ==
  Let(RunEnd(s, q, SpaceChars), LAMBDA w : w > q /\ LitAtCI(s, w, W_ago))

\* Updated\s+about\s+ at i: the positions the group (.+?) may start at, the
\* whitespace after "about" being one character at least
AboutStarts(s, i) ==
  Let(KeywordEnd(s, i, <<W_Updated>>), LAMBDA b :
    IF b # 0 /\ LitAtCI(s, b, W_about)
    THEN (b + Len(W_about) + 1)..RunEnd(s, b + Len(W_about), SpaceChars)
    ELSE {})

\* the positions a group (.+?) that starts at p may end at (exclusive), \s+ago following
AboutEnds(s, p) ==
  {q \in (p + 1)..(Len(s) + 1) : (\A k \in p..(q - 1) : IsDot(s[k])) /\ WsAgoAt(s, q)}

\* the group of  Updated\s+about\s+(.+?)\s+ago  matched at i.  about\s+ is
\* greedy: it gives whitespace back to the group only when the longer run
\* fails; the group is lazy: the shortest that works
AboutGroupAt(s, i) ==
  Let({p \in AboutStarts(s, i) : AboutEnds(s, p) # {}}, LAMBDA P :
    IF P = {} THEN [b |-> 0, e |-> 0]
    ELSE [b |-> SetMax(P), e |-> SetMin(AboutEnds(s, SetMax(P)))])

\* re.search of  Updated\s+about\s+(.+?)\s+ago : group(1) of the leftmost match
SearchAbout(s) ==
  Let({i \in DOMAIN s : AboutGroupAt(s, i).b # 0}, LAMBDA I :
    IF I = {} THEN None
    ELSE Let(AboutGroupAt(s, SetMin(I)), LAMBDA g : Some(SubSeq(s, g.b, g.e - 1))))

\* re.match(r'^[A-Za-z]{3}\s+\d{1,2}$', s)
IsMonDay(s) == MonDayEnd(s, 1) = Len(s) + 1
\* re.match(r'^[A-Za-z]{3}\s+\d{1,2},\s+\d{4}$', s)
IsMonDayYear(s) == MonDayYearEnd(s, 1) = Len(s) + 1
\* re.match(r'^\d{4}-\d{2}-\d{2}$', s)
IsIso(s) == IsoEnd(s, 1) = Len(s) + 1
\* re.match(r'^\d{1,2}/\d{1,2}/\d{4}$', s)
IsSlash(s) == SlashEnd(s, 1) = Len(s) + 1

\* mutant: the year is not substituted, strptime's default year stands
WithYear_DefaultYear(date_str, year) == date_str \o <<" ","1","9","0","0">>

\* f"{date_str} {current_year}"
WithYear(date_str, year) == date_str \o <<" ">> \o Pad(year, 4)

\* a strptime result formatted by strftime("%Y-%m-%d"); ValueError gives None
\* (the except ValueError: continue of the source)
Formatted(dt) == IF dt.ok THEN Some(strftime_ymd(dt)) ELSE None

(***************************************************************************)
(* extract_update_time_from_html.  A document is what BeautifulSoup makes  *)
(* of html_content: its text nodes and its meta tags with a content        *)
(* attribute, in document order.                                           *)
(***************************************************************************)
\* html_content itself, which the third method scans
RECURSIVE Raw(_)
Raw(doc) ==
  IF doc = <<>> THEN <<>>
  ELSE (IF Head(doc).kind = "text"
        THEN <<"<","p",">">> \o Head(doc).s \o <<"<","/","p",">">>
        ELSE <<"<","m","e","t","a"," ","c","o","n","t","e","n","t","=","\"">>
             \o Head(doc).s \o <<"\"",">">>)
       \o Raw(Tail(doc))

\* text.strip()
Strip(s) ==
  Let({i \in DOMAIN s : ~IsSpace(s[i])}, LAMBDA K :
    IF K = {} THEN <<>> ELSE SubSeq(s, SetMin(K), SetMax(K)))

\* re.compile(r'Updated|Last updated|Modified', re.IGNORECASE).search(s)
HasKeyword(s) ==
  \E i \in DOMAIN s :
     \/ LitAtCI(s, i, W_Updated)
     \/ LitAtCI(s, i, W_Last \o <<" ">> \o W_updated)
     \/ LitAtCI(s, i, W_Modified)

\* the branch on date_str and its parse
ParseKeywordDate(date_str, now_) ==
  IF IsMonDay(date_str)
  THEN Formatted(strptime_b_d_Y(WithYear(date_str, now_.y)))
  ELSE IF IsMonDayYear(date_str)
  THEN Formatted(strptime_b_d_comma_Y(date_str))
  ELSE IF Contains(LowerStr(date_str), W_ago)
  THEN Some(strftime_ymd(now_))
  ELSE None

\* date_patterns of the first method: re.search of the k-th in text
KeywordPattern(k, text) ==
  CASE k = 1 -> SearchKeywordDate(text, <<W_Updated>>, TRUE)
    [] k = 2 -> SearchAbout(text)
    [] k = 3 -> SearchKeywordDate(text, <<W_Last, W_updated>>, FALSE)
    [] k = 4 -> SearchKeywordDate(text, <<W_Modified>>, FALSE)

\* one turn of  for pattern in date_patterns: the date of the k-th pattern
\* in text, None if it does not match or its match does not parse
PatternDate(k, text, now_) ==
  Let(KeywordPattern(k, text), LAMBDA m :
    IF m.ok THEN ParseKeywordDate(m.v, now_) ELSE None)

\* the loop over date_patterns for one text: the first pattern that matches
\* and parses decides
KeywordDateInText(text, now_) ==
  Let({k \in 1..4 : PatternDate(k, text, now_).ok}, LAMBDA K :
    IF K = {} THEN None ELSE PatternDate(SetMin(K), text, now_))

\* one turn of  for text in updated_texts
NodeDate(node, now_) ==
  IF node.kind = "text" /\ HasKeyword(node.s)
  THEN KeywordDateInText(Strip(node.s), now_) ELSE None

\* method 1: the texts that hold an update keyword, in document order
KeywordHeuristic(doc, now_) ==
  Let({n \in DOMAIN doc : NodeDate(doc[n], now_).ok}, LAMBDA N :
    IF N = {} THEN None ELSE NodeDate(doc[SetMin(N)], now_))

\* re.search(r'(\d{4}-\d{2}-\d{2})', s)
SearchIso(s) ==
  Let({i \in DOMAIN s : IsoEnd(s, i) # 0}, LAMBDA I :
    IF I = {} THEN None ELSE Some(SubSeq(s, SetMin(I), SetMin(I) + 9)))

\* method 2: the first meta tag whose content holds an ISO date
MetaHeuristic(doc) ==
  Let({n \in DOMAIN doc : doc[n].kind = "meta" /\ SearchIso(doc[n].s).ok}, LAMBDA N :
    IF N = {} THEN None ELSE SearchIso(doc[SetMin(N)].s))

\* the four date shapes of the third method, in their order
ScanPatternEnd(p, s, i) ==
  CASE p = 1 -> IsoEnd(s, i)
    [] p = 2 -> MonDayYearEnd(s, i)
    [] p = 3 -> MonDayEnd(s, i)
    [] p = 4 -> SlashEnd(s, i)

\* the branch on a match of the third method and its parse
ParseScanDate(match, now_) ==
  IF IsIso(match) THEN Some(match)
  ELSE IF IsMonDayYear(match) THEN Formatted(strptime_b_d_comma_Y(match))
  ELSE IF IsMonDay(match) THEN Formatted(strptime_b_d_Y(WithYear(match, now_.y)))
  ELSE IF IsSlash(match) THEN Formatted(strptime_m_d_Y(match))
  ELSE None

\* for match in re.findall(pattern, html_content): the matches from position
\* `from` on, left to right without overlap; the first that parses decides
RECURSIVE ScanMatches(_, _, _, _)
ScanMatches(p, s, from, now_) ==
  Let({i \in from..Len(s) : ScanPatternEnd(p, s, i) # 0}, LAMBDA I :
    IF I = {} THEN None
    ELSE Let(ScanPatternEnd(p, s, SetMin(I)), LAMBDA e :
         Let(ParseScanDate(SubSeq(s, SetMin(I), e - 1), now_), LAMBDA r :
           IF r.ok THEN r ELSE ScanMatches(p, s, e, now_))))

\* method 3: the whole document, pattern by pattern
ScanHeuristic(doc, now_) ==
  Let(Raw(doc), LAMBDA raw :
  Let({p \in 1..4 : ScanMatches(p, raw, 1, now_).ok}, LAMBDA P :
    IF P = {} THEN None ELSE ScanMatches(SetMin(P), raw, 1, now_)))

\* the three methods in order, the first that yields a date decides
extract_update_time_from_html(doc, now_) ==
  Let(KeywordHeuristic(doc, now_), LAMBDA k :
    IF k.ok THEN k
    ELSE Let(MetaHeuristic(doc), LAMBDA m :
           IF m.ok THEN m ELSE ScanHeuristic(doc, now_)))

(***************************************************************************)
(* extract_update_time_from_api.  The response of the structured endpoint  *)
(* is an exception of session.get, a status other than 200, or a JSON      *)
(* object whose lastModified and createdAt may be absent (None).           *)
(***************************************************************************)
\* s.replace('Z', '+00:00')
RECURSIVE ReplaceZ(_)
ReplaceZ(s) ==
  IF s = <<>> THEN <<>>
  ELSE (IF Head(s) = "Z" THEN <<"+","0","0",":","0","0">> ELSE <<Head(s)>>)
       \o ReplaceZ(Tail(s))

\* two digits at i that make a number below bound
TwoDigitsBelow(s, i, bound) == DigitsAt(s, i, 2) /\ NumVal(SubSeq(s, i, i + 1)) < bound

\* hh:mm at i
HourMinuteAt(s, i) ==
  TwoDigitsBelow(s, i, 24) /\ At(s, i + 2) = ":" /\ TwoDigitsBelow(s, i + 3, 60)

\* the end of an optional fraction of seconds at position 10 of the time part
FractionEnd(r) == IF At(r, 10) = "." THEN RunEnd(r, 11, DigitSet) ELSE 10

\* the time part of an ISO timestamp as isoformat() writes it: nothing, or a
\* separator and hh:mm:ss, an optional fraction of 3 or 6 digits, an optional
\* offset +hh:mm
IsIsoTime(r) ==
  \/ r = <<>>
  \/ /\ Len(r) >= 9 /\ HourMinuteAt(r, 2) /\ At(r, 7) = ":" /\ TwoDigitsBelow(r, 8, 60)
     /\ Let(FractionEnd(r), LAMBDA f :
          /\ f - 10 \in {0, 4, 7}
          /\ \/ f = Len(r) + 1
             \/ /\ At(r, f) \in {"+", "-"} /\ HourMinuteAt(r, f + 1)
                /\ f + 6 = Len(r) + 1)

\* datetime.fromisoformat(s)
fromisoformat(s) ==
  IF IsoEnd(s, 1) = 11 /\ IsIsoTime(SubSeq(s, 11, Len(s)))
  THEN MkDate(NumVal(SubSeq(s, 1, 4)), NumVal(SubSeq(s, 6, 7)), NumVal(SubSeq(s, 9, 10)))
  ELSE ValueError

ApiException == [kind |-> "exception", lastModified |-> None, createdAt |-> None]
ApiStatus404 == [kind |-> "status", lastModified |-> None, createdAt |-> None]
ApiJson(lm, ca) == [kind |-> "json", lastModified |-> lm, createdAt |-> ca]

\* one timestamp field: its date, or None when it is absent or does not parse
FieldDate(field) ==
  IF field.ok THEN Formatted(fromisoformat(ReplaceZ(field.v))) ELSE None

extract_update_time_from_api(resp) ==
  IF resp.kind # "json" THEN None
  ELSE Let(FieldDate(resp.lastModified), LAMBDA lm :
         IF lm.ok THEN lm ELSE FieldDate(resp.createdAt))

(***************************************************************************)
(* Documents and clock values the extractor is run on.                     *)
(***************************************************************************)
\* text: 'Updated about 10 hours ago'
DocAgo ==
  <<
     [kind |-> "text", s |-> <<"U","p","d","a","t","e","d"," ","a","b","o","u","t"," ","1","0"," ","h","o","u","r","s"," ","a","g","o">>]
  >>

\* text: 'Updated about 2 days ago' | meta: '2024-05-01T08:00:00'
DocAgoMeta ==
  <<
     [kind |-> "text", s |-> <<"U","p","d","a","t","e","d"," ","a","b","o","u","t"," ","2"," ","d","a","y","s"," ","a","g","o">>],
     [kind |-> "meta", s |-> <<"2","0","2","4","-","0","5","-","0","1","T","0","8",":","0","0",":","0","0">>]
  >>

\* text: 'Updated Aug 6'
DocUpdated ==
  <<
     [kind |-> "text", s |-> <<"U","p","d","a","t","e","d"," ","A","u","g"," ","6">>]
  >>

\* text: 'Last updated Aug 6'
DocLastUpdated ==
  <<
     [kind |-> "text", s |-> <<"L","a","s","t"," ","u","p","d","a","t","e","d"," ","A","u","g"," ","6">>]
  >>

\* text: 'Modified Mar 15'
DocModified ==
  <<
     [kind |-> "text", s |-> <<"M","o","d","i","f","i","e","d"," ","M","a","r"," ","1","5">>]
  >>

\* text: ' updated  dec 31 '
DocUpdatedDec ==
  <<
     [kind |-> "text", s |-> <<" ","u","p","d","a","t","e","d"," "," ","d","e","c"," ","3","1"," ">>]
  >>

\* text: 'Updated Aug 6, 2025' | text: 'released 2024-01-15'
DocPhraseIso ==
  <<
     [kind |-> "text", s |-> <<"U","p","d","a","t","e","d"," ","A","u","g"," ","6",","," ","2","0","2","5">>],
     [kind |-> "text", s |-> <<"r","e","l","e","a","s","e","d"," ","2","0","2","4","-","0","1","-","1","5">>]
  >>

\* text: 'since 2024-01-15' | text: 'Updated Aug 6, 2025'
DocIsoPhrase ==
  <<
     [kind |-> "text", s |-> <<"s","i","n","c","e"," ","2","0","2","4","-","0","1","-","1","5">>],
     [kind |-> "text", s |-> <<"U","p","d","a","t","e","d"," ","A","u","g"," ","6",","," ","2","0","2","5">>]
  >>

\* meta: '2023-03-03' | text: 'Updated Sep 24, 2024'
DocMetaPhrase ==
  <<
     [kind |-> "meta", s |-> <<"2","0","2","3","-","0","3","-","0","3">>],
     [kind |-> "text", s |-> <<"U","p","d","a","t","e","d"," ","S","e","p"," ","2","4",","," ","2","0","2","4">>]
  >>

\* text: 'v1 2022-02-02' | meta: '2023-03-03T10:00'
DocScanMeta ==
  <<
     [kind |-> "text", s |-> <<"v","1"," ","2","0","2","2","-","0","2","-","0","2">>],
     [kind |-> "meta", s |-> <<"2","0","2","3","-","0","3","-","0","3","T","1","0",":","0","0">>]
  >>

\* text: 'call 1234-56-78'
DocBadIso ==
  <<
     [kind |-> "text", s |-> <<"c","a","l","l"," ","1","2","3","4","-","5","6","-","7","8">>]
  >>

\* meta: '9999-99-99'
DocBadMeta ==
  <<
     [kind |-> "meta", s |-> <<"9","9","9","9","-","9","9","-","9","9">>]
  >>

\* text: 'Qwen model card'
DocNone ==
  <<
     [kind |-> "text", s |-> <<"Q","w","e","n"," ","m","o","d","e","l"," ","c","a","r","d">>]
  >>

\* text: 'Modified Aug 6, 2024'
DocModifiedYear ==
  <<
     [kind |-> "text", s |-> <<"M","o","d","i","f","i","e","d"," ","A","u","g"," ","6",","," ","2","0","2","4">>]
  >>

\* text: 'Last updated Aug 6, 2024'
DocLastUpdatedYear ==
  <<
     [kind |-> "text", s |-> <<"L","a","s","t"," ","u","p","d","a","t","e","d"," ","A","u","g"," ","6",","," ","2","0","2","4">>]
  >>

\* text: 'Updated Aug 6, 2024'
DocUpdatedYear ==
  <<
     [kind |-> "text", s |-> <<"U","p","d","a","t","e","d"," ","A","u","g"," ","6",","," ","2","0","2","4">>]
  >>

\* text: 'Updated Feb 29'
DocFeb29 ==
  <<
     [kind |-> "text", s |-> <<"U","p","d","a","t","e","d"," ","F","e","b"," ","2","9">>]
  >>

\* text: 'Released Sep 24, 2025'
DocScanMonDayYear ==
  <<
     [kind |-> "text", s |-> <<"R","e","l","e","a","s","e","d"," ","S","e","p"," ","2","4",","," ","2","0","2","5">>]
  >>

\* text: 'on Sep 24'
DocScanMonDay ==
  <<
     [kind |-> "text", s |-> <<"o","n"," ","S","e","p"," ","2","4">>]
  >>

\* text: '09/24/2025'
DocScanSlash ==
  <<
     [kind |-> "text", s |-> <<"0","9","/","2","4","/","2","0","2","5">>]
  >>

\* text: '13/45/2025'
DocBadSlash ==
  <<
     [kind |-> "text", s |-> <<"1","3","/","4","5","/","2","0","2","5">>]
  >>

\* text: 'Updated soon' | text: 'Updated Jan 5'
DocTwoTexts ==
  <<
     [kind |-> "text", s |-> <<"U","p","d","a","t","e","d"," ","s","o","o","n">>],
     [kind |-> "text", s |-> <<"U","p","d","a","t","e","d"," ","J","a","n"," ","5">>]
  >>

Docs == {DocAgo, DocAgoMeta, DocUpdated, DocLastUpdated, DocModified, DocUpdatedDec, DocPhraseIso, DocIsoPhrase, DocMetaPhrase, DocScanMeta, DocBadIso, DocBadMeta, DocNone, DocModifiedYear, DocLastUpdatedYear, DocUpdatedYear, DocFeb29, DocScanMonDayYear, DocScanMonDay, DocScanSlash, DocBadSlash, DocTwoTexts}


Date(y, m, d) == [y |-> y, m |-> m, d |-> d]
\* datetime.now(): a day of a common year, of a leap year, and a new year's day
Nows == {Date(2025, 8, 7), Date(2024, 12, 31), Date(2026, 1, 1)}

(***************************************************************************)
(* Inputs of a run of update_csv_file.                                     *)
(***************************************************************************)
\* rows of the input dataset, at most
MaxRows == 2
\* ThreadPoolExecutor(max_workers=self.max_workers)
max_workers == 2
\* calls of update_csv_file on one updater, at most
MaxRuns == 2

Names == {"Qwen/Qwen2-7B", "Qwen/Qwen3-8B"}
Sentinel == <<"-">>
\* update_time of an input row: empty, the sentinel, or a date already known
UpdateTimes == {<<>>, Sentinel, <<"2","0","2","3","-","0","9","-","0","1">>}
RowSet == [name : Names, size : {"7B"}, update_time : UpdateTimes]
Datasets == UNION {[1..n -> RowSet] : n \in 0..MaxRows}
RowIds == 1..MaxRows

\* what the structured endpoint answers
ApiResponses ==
  { ApiException,
    ApiStatus404,
    ApiJson(Some(<<"2","0","2","4","-","0","1","-","2","5","T","1","0",":","0","0",":","0","0","Z">>), None),
    ApiJson(Some(<<"s","o","o","n">>),
            Some(<<"2","0","2","3","-","0","6","-","0","1","T","0","0",":","0","0",":","0","0",".","0","0","0","Z">>)) }

\* what the document endpoint answers: an exception of requests (timeout,
\* connection error, raise_for_status), any other exception, or a page
RequestException == [kind |-> "RequestException", doc |-> <<>>]
OtherException   == [kind |-> "Exception", doc |-> <<>>]
Page(doc)        == [kind |-> "page", doc |-> doc]
NoResponse       == [kind |-> "none", doc |-> <<>>]
DocResponses == {RequestException, OtherException, Page(DocLastUpdated), Page(DocNone)}

\* what a finished future holds: a returned Optional[str] or a raised exception
Returned(v) == [raised |-> FALSE, val |-> v]
Raised      == [raised |-> TRUE, val |-> None]

\* the two extractors on the answers above, computed once
ApiDate == [resp \in ApiResponses |-> extract_update_time_from_api(resp)]
PageDate == [doc \in Docs, t \in Nows |-> extract_update_time_from_html(doc, t)]

\* mutant: only the sentinel makes a row eligible
Eligible_SentinelOnly(row) == row.update_time = Sentinel

\* row['update_time'] == '-' or not row['update_time']
Eligible(row) == row.update_time = Sentinel \/ row.update_time = <<>>

\* models_to_update: (i, row['name']) of the eligible rows, in row order
RECURSIVE ModelsToUpdateFrom(_, _)
ModelsToUpdateFrom(rs, i) ==
  IF i > Len(rs) THEN <<>>
  ELSE (IF Eligible(rs[i]) THEN <<[index |-> i, name |-> rs[i].name]>> ELSE <<>>)
       \o ModelsToUpdateFrom(rs, i + 1)
\* mutant: every row is submitted, eligible or not
ModelsToUpdate_AllRows(rs) == [i \in DOMAIN rs |-> [index |-> i, name |-> rs[i].name]]

ModelsToUpdate(rs) == ModelsToUpdateFrom(rs, 1)

(***************************************************************************)
(* State.                                                                  *)
(***************************************************************************)
VARIABLES
  now,          \* datetime.now() of this run
  html,         \* extractor run: the document given to extract_update_time_from_html
  xpc,          \* extractor run: the method about to be tried, or "done"
  xres,         \* extractor run: the returned Optional[str]
  xvia,         \* extractor run: the method that returned
  input_file,   \* the rows of the input dataset
  rows,         \* rows: the list update_csv_file reads and merges into
  models_to_update,
  submitted,    \* how many of models_to_update have been submitted to the pool
  main,         \* where update_csv_file (the coordinating thread) is
  tpc,          \* per row: where its task (fetch_model_update_time) is
  api_time,     \* per row: what extract_update_time_from_api returned to the task
  doc_resp,     \* per row: what the document endpoint answered to the task
  tval,         \* per row: the value the task is about to return
  tcounter,     \* per row: the counter the task is about to increment
  tlocal,       \* per row: the counter value read by  += 1
  tres,         \* per row: the finished future
  progress_lock,\* 0, or the row whose task holds the lock
  updated_count,
  failed_count,
  upd_incs,     \* per row: increments of updated_count made by its task
  fail_incs,    \* per row: increments of failed_count made by its task
  calls,        \* per row: GETs of the structured endpoint by its task
  sleeps,       \* per row: pacing delays of its task
  doc_gets,     \* per row: GETs of the document endpoint by its task
  reported,     \* per row: times as_completed yielded its future
  output_file,  \* the rows written, None before
  run,          \* which call of update_csv_file on this updater this is
  data,         \* structured extractor run: the decoded answer of the endpoint
  apc,          \* structured extractor run: the field about to be looked at, or "done"
  ares,         \* structured extractor run: the returned Optional[str]
  df,           \* report run: the rows of the CSV file read by convert_csv_to_json
  rpc,          \* report run: where convert_csv_to_json is
  models,       \* report run: the list built by the loop over the rows
  models_sorted \* report run: the list written as "models"

xvars == <<html, xpc, xres, xvia>>
tvars == <<tpc, api_time, doc_resp, tval, tcounter, tlocal, tres>>
cvars == <<progress_lock, updated_count, failed_count, upd_incs, fail_incs>>
hvars == <<calls, sleeps, doc_gets>>
mvars == <<input_file, rows, models_to_update, submitted, main, reported, output_file>>
pvars == <<tvars, cvars, hvars, mvars>>
avars == <<data, apc, ares>>
rvars == <<df, rpc, models, models_sorted>>
others == <<run, avars, rvars>>
vars == <<now, xvars, pvars, others>>

\* the pipeline before update_csv_file is called on an input: the updater as
\* __init__ leaves it
PipelineInit(input) ==
  /\ input_file = input
  /\ rows = <<>>
  /\ models_to_update = <<>>
  /\ submitted = 0
  /\ main = "start"
  /\ tpc = [i \in RowIds |-> "none"]
  /\ api_time = [i \in RowIds |-> None]
  /\ doc_resp = [i \in RowIds |-> NoResponse]
  /\ tval = [i \in RowIds |-> None]
  /\ tcounter = [i \in RowIds |-> "none"]
  /\ tlocal = [i \in RowIds |-> 0]
  /\ tres = [i \in RowIds |-> Returned(None)]
  /\ progress_lock = 0
  /\ updated_count = 0
  /\ failed_count = 0
  /\ upd_incs = [i \in RowIds |-> 0]
  /\ fail_incs = [i \in RowIds |-> 0]
  /\ calls = [i \in RowIds |-> 0]
  /\ sleeps = [i \in RowIds |-> 0]
  /\ doc_gets = [i \in RowIds |-> 0]
  /\ reported = [i \in RowIds |-> 0]
  /\ output_file = [written |-> FALSE, rows |-> <<>>]

\* no extractor run of its own
ExtractOff == html = <<>> /\ xpc = "off" /\ xres = None /\ xvia = "none"
\* no structured extractor run of its own, no report run
ApiOff == data = ApiStatus404 /\ apc = "off" /\ ares = None
ReportOff ==
  /\ df = [exists |-> FALSE, rows |-> <<>>] /\ rpc = [at |-> "off", k |-> 0]
  /\ models = <<>> /\ models_sorted = <<>>

(***************************************************************************)
(* The extractor on its own: one call of extract_update_time_from_html,    *)
(* method by method.                                                       *)
(***************************************************************************)
InitExtract ==
  /\ now \in Nows
  /\ html \in Docs
  /\ xpc = "keyword"
  /\ xres = None
  /\ xvia = "none"
  /\ PipelineInit(<<>>)
  /\ run = 1 /\ ApiOff /\ ReportOff

\* mutant: the keyword method is passed over
TryKeyword_Skipped ==
  /\ xpc = "keyword"
  /\ xpc' = "meta"
  /\ UNCHANGED <<now, others, html, xres, xvia, pvars>>

TryKeyword ==
  /\ xpc = "keyword"
  /\ Let(KeywordHeuristic(html, now), LAMBDA r :
       IF r.ok THEN xres' = r /\ xvia' = "keyword" /\ xpc' = "done"
       ELSE xpc' = "meta" /\ UNCHANGED <<xres, xvia>>)
  /\ UNCHANGED <<now, others, html, pvars>>

TryMeta ==
  /\ xpc = "meta"
  /\ Let(MetaHeuristic(html), LAMBDA r :
       IF r.ok THEN xres' = r /\ xvia' = "meta" /\ xpc' = "done"
       ELSE xpc' = "scan" /\ UNCHANGED <<xres, xvia>>)
  /\ UNCHANGED <<now, others, html, pvars>>

TryScan ==
  /\ xpc = "scan"
  /\ Let(ScanHeuristic(html, now), LAMBDA r :
       /\ xres' = r
       /\ xvia' = IF r.ok THEN "scan" ELSE "none"
       /\ xpc' = "done")
  /\ UNCHANGED <<now, others, html, pvars>>

NextExtract == TryKeyword \/ TryMeta \/ TryScan

SpecExtract == InitExtract /\ [][NextExtract]_vars

(***************************************************************************)
(* The structured extractor on its own: one call of                        *)
(* extract_update_time_from_api, field by field.                           *)
(***************************************************************************)
\* values of a timestamp field: timestamps as the endpoint writes them, a date
\* alone, a word, a day that does not exist, the empty string
T_Jan25 == <<"2","0","2","4","-","0","1","-","2","5","T","1","0",":","0","0",":","0","0","Z">>
T_Jun01 == <<"2","0","2","3","-","0","6","-","0","1","T","0","0",":","0","0",":","0","0",".","0","0","0","Z">>
T_DateOnly == <<"2","0","2","2","-","1","1","-","3","0">>
T_Soon == <<"s","o","o","n">>
T_Feb30 == <<"2","0","2","4","-","0","2","-","3","0","T","0","0",":","0","0",":","0","0","Z">>
T_Empty == <<>>
FieldValues == {None, Some(T_Jan25), Some(T_Jun01), Some(T_DateOnly), Some(T_Soon),
                Some(T_Feb30), Some(T_Empty)}
\* answers of the endpoint: an exception, another status than 200, or a JSON
\* object with or without each of the two fields
ApiAnswers ==
  {ApiException, ApiStatus404} \cup {ApiJson(lm, ca) : lm \in FieldValues, ca \in FieldValues}

InitApi ==
  /\ now = Date(2025, 8, 7)
  /\ ExtractOff
  /\ PipelineInit(<<>>)
  /\ run = 1 /\ ReportOff
  /\ data \in ApiAnswers
  /\ apc = "get"
  /\ ares = None

\* self.session.get(api_url) and the test of the status code
GetModelInfo ==
  /\ apc = "get"
  /\ apc' = IF data.kind = "json" THEN "lastModified" ELSE "done"
  /\ UNCHANGED <<now, xvars, pvars, run, rvars, data, ares>>

\* mutant: a lastModified field that is present decides alone
TryLastModified_Decides ==
  /\ apc = "lastModified"
  /\ IF data.lastModified.ok
     THEN ares' = FieldDate(data.lastModified) /\ apc' = "done"
     ELSE apc' = "createdAt" /\ UNCHANGED ares
  /\ UNCHANGED <<now, xvars, pvars, run, rvars, data>>

\* if 'lastModified' in data: return its date, or pass on any exception
TryLastModified ==
  /\ apc = "lastModified"
  /\ IF data.lastModified.ok /\ fromisoformat(ReplaceZ(data.lastModified.v)).ok
     THEN /\ ares' = Some(strftime_ymd(fromisoformat(ReplaceZ(data.lastModified.v))))
          /\ apc' = "done"
     ELSE apc' = "createdAt" /\ UNCHANGED ares
  /\ UNCHANGED <<now, xvars, pvars, run, rvars, data>>

\* if 'createdAt' in data: return its date, or pass on any exception;
\* return None
TryCreatedAt ==
  /\ apc = "createdAt"
  /\ ares' = IF data.createdAt.ok /\ fromisoformat(ReplaceZ(data.createdAt.v)).ok
             THEN Some(strftime_ymd(fromisoformat(ReplaceZ(data.createdAt.v))))
             ELSE None
  /\ apc' = "done"
  /\ UNCHANGED <<now, xvars, pvars, run, rvars, data>>

NextApi == GetModelInfo \/ TryLastModified \/ TryCreatedAt

SpecApi == InitApi /\ [][NextApi]_vars

(***************************************************************************)
(* convert_csv_to_json.py: standardize_time and the sort of the models.    *)
(***************************************************************************)
\* the em dash U+2014, one character of the source
EmDash == "U+2014"
\* the characters of the texts below in the order of their code points, by
\* which Python compares str values
CodePointOrder == <<" ", ",", "-">> \o DigitChars \o UpperChars \o LowerChars \o <<EmDash>>
Ord(c) == CHOOSE i \in DOMAIN CodePointOrder : CodePointOrder[i] = c

\* a < b for two str values
RECURSIVE StrLess(_, _)
StrLess(a, b) ==
  IF b = <<>> THEN FALSE
  ELSE IF a = <<>> THEN TRUE
  ELSE IF Head(a) = Head(b) THEN StrLess(Tail(a), Tail(b))
  ELSE Ord(Head(a)) < Ord(Head(b))

AlphaSet == {UpperChars[i] : i \in DOMAIN UpperChars} \cup {LowerChars[i] : i \in DOMAIN LowerChars}
MonthName == << <<"j","a","n","u","a","r","y">>,
                <<"f","e","b","r","u","a","r","y">>,
                <<"m","a","r","c","h">>,
                <<"a","p","r","i","l">>,
                <<"m","a","y">>,
                <<"j","u","n","e">>,
                <<"j","u","l","y">>,
                <<"a","u","g","u","s","t">>,
                <<"s","e","p","t","e","m","b","e","r">>,
                <<"o","c","t","o","b","e","r">>,
                <<"n","o","v","e","m","b","e","r">>,
                <<"d","e","c","e","m","b","e","r">> >>

\* %b or %B: the month a name of the table stands for (case-insensitive), 0 if none
MonthIn(table, name) ==
  Let({m \in DOMAIN table : table[m] = LowerStr(name)},
      LAMBDA M : IF M = {} THEN 0 ELSE SetMin(M))

\* datetime.strptime(s, '%Y-%m-%d'): e1 and e2 are the ends of month and day
strptime_Y_m_d(s) ==
  Let(RunEnd(s, 6, DigitSet), LAMBDA e1 :
  Let(RunEnd(s, e1 + 1, DigitSet), LAMBDA e2 :
    IF /\ DigitsAt(s, 1, 4) /\ At(s, 5) = "-" /\ At(s, e1) = "-" /\ e2 = Len(s) + 1
    THEN MkDate(NumVal(SubSeq(s, 1, 4)), MonOf(SubSeq(s, 6, e1 - 1)),
                DayOf(SubSeq(s, e1 + 1, e2 - 1)))
    ELSE ValueError))

\* the day and the year of  <name> <day>, <year>  once the name ends at a
DayCommaYear(s, a, month) ==
  Let(RunEnd(s, a, SpaceChars), LAMBDA w :
  Let(RunEnd(s, w, DigitSet), LAMBDA e :
  Let(RunEnd(s, e + 1, SpaceChars), LAMBDA w2 :
    IF /\ a > 1 /\ w > a /\ At(s, e) = "," /\ w2 > e + 1
       /\ DigitsAt(s, w2, 4) /\ w2 + 4 = Len(s) + 1
    THEN MkDate(NumVal(SubSeq(s, w2, w2 + 3)), month, DayOf(SubSeq(s, w, e - 1)))
    ELSE ValueError)))

\* datetime.strptime(s, '%b %d, %Y') and datetime.strptime(s, '%B %d, %Y')
strptime_name_d_comma_Y(s, table) ==
  Let(RunEnd(s, 1, AlphaSet), LAMBDA a :
    DayCommaYear(s, a, MonthIn(table, SubSeq(s, 1, a - 1))))

\* the name and the year of  <day> <name> <year>  once the day ends at e
NameYear(s, e, table) ==
  Let(RunEnd(s, e, SpaceChars), LAMBDA w :
  Let(RunEnd(s, w, AlphaSet), LAMBDA a :
  Let(RunEnd(s, a, SpaceChars), LAMBDA w2 :
    IF /\ e > 1 /\ w > e /\ a > w /\ w2 > a
       /\ DigitsAt(s, w2, 4) /\ w2 + 4 = Len(s) + 1
    THEN MkDate(NumVal(SubSeq(s, w2, w2 + 3)), MonthIn(table, SubSeq(s, w, a - 1)),
                DayOf(SubSeq(s, 1, e - 1)))
    ELSE ValueError)))

\* datetime.strptime(s, '%d %b %Y') and datetime.strptime(s, '%d %B %Y')
strptime_d_name_Y(s, table) == NameYear(s, RunEnd(s, 1, DigitSet), table)

\* date_formats, in the order they are tried
DateFormat(s, k) ==
  CASE k = 1 -> strptime_Y_m_d(s)
    [] k = 2 -> strptime_name_d_comma_Y(s, MonthAbbr)
    [] k = 3 -> strptime_name_d_comma_Y(s, MonthName)
    [] k = 4 -> strptime_d_name_Y(s, MonthAbbr)
    [] k = 5 -> strptime_d_name_Y(s, MonthName)

S_nan == <<"n","a","n">>
S_Missing == <<"9","9","9","9","-","9","9","-","9","9">>

\* str.strip() of a cell text
RECURSIVE StripLeft(_)
StripLeft(s) == IF s # <<>> /\ Head(s) \in SpaceChars THEN StripLeft(Tail(s)) ELSE s
RECURSIVE StripRight(_)
StripRight(s) ==
  IF s # <<>> /\ s[Len(s)] \in SpaceChars THEN StripRight(SubSeq(s, 1, Len(s) - 1)) ELSE s
StripStr(s) == StripRight(StripLeft(s))

\* str(row[col]) for a cell as pandas.read_csv gives it: an empty cell is NaN
CellStr(cell) == IF cell = <<>> THEN S_nan ELSE cell

standardize_time(time_str) ==
  IF time_str = <<>> \/ time_str = <<EmDash>> \/ time_str = S_nan THEN S_Missing
  ELSE Let({k \in 1..5 : DateFormat(StripStr(time_str), k).ok}, LAMBDA K :
         IF K = {} THEN StripStr(time_str)
         ELSE strftime_ymd(DateFormat(StripStr(time_str), SetMin(K))))

\* model_data of a row (the fields the order of the report depends on)
ModelData(row) ==
  [name |-> StripStr(CellStr(row.name)),
   update_time |-> StripStr(CellStr(row.update_time)),
   update_time_standardized |-> standardize_time(StripStr(CellStr(row.update_time)))]

\* where x goes in a list kept in descending order of the key, behind the
\* elements with the same key: sorted(..., reverse=True) is stable
RECURSIVE InsertDesc(_, _)
InsertDesc(x, ms) ==
  IF ms = <<>> THEN <<x>>
  ELSE IF StrLess(Head(ms).update_time_standardized, x.update_time_standardized)
       THEN <<x>> \o ms
       ELSE <<Head(ms)>> \o InsertDesc(x, Tail(ms))

\* sorted(models, key=lambda x: x["update_time_standardized"], reverse=True)
RECURSIVE SortedDesc(_)
SortedDesc(ms) ==
  IF ms = <<>> THEN <<>>
  ELSE InsertDesc(ms[Len(ms)], SortedDesc(SubSeq(ms, 1, Len(ms) - 1)))

\* rows of the CSV file, at most
MaxModels == 3
Cell_Iso == <<"2","0","2","4","-","0","1","-","2","5">>
Cell_AbbrComma == <<"J","a","n"," ","5",","," ","2","0","2","3">>
Cell_DayName == <<" ","3"," ","M","a","r","c","h"," ","2","0","2","5">>
Cell_Sentinel == <<"-">>
\* update_time cells: empty, the em dash, dates in three of the formats, the
\* sentinel of update_qwen_models.py
TimeCells == {<<>>, <<EmDash>>, Cell_Iso, Cell_AbbrComma, Cell_DayName, Cell_Sentinel}
NameCells == {<<>>, <<"Q","w","e","n","2">>}
CsvRows == [name : NameCells, update_time : TimeCells]
CsvFiles == UNION {[1..n -> CsvRows] : n \in 0..MaxModels}
NoCsv == [exists |-> FALSE, rows |-> <<>>]
Csv(rs) == [exists |-> TRUE, rows |-> rs]
At_(where, k) == [at |-> where, k |-> k]

InitReport ==
  /\ now = Date(2025, 8, 7)
  /\ ExtractOff
  /\ PipelineInit(<<>>)
  /\ run = 1 /\ ApiOff
  /\ df \in {NoCsv} \cup {Csv(rs) : rs \in CsvFiles}
  /\ rpc = At_("start", 0)
  /\ models = <<>>
  /\ models_sorted = <<>>

\* csv_file.exists() and pd.read_csv(csv_file)
ReadCsv ==
  /\ rpc.at = "start"
  /\ rpc' = IF df.exists THEN At_("rows", 1) ELSE At_("done", 0)
  /\ UNCHANGED <<now, xvars, pvars, run, avars, df, models, models_sorted>>

\* one turn of  for _, row in df.iterrows(): a row without a name is skipped
AppendModel ==
  /\ rpc.at = "rows"
  /\ rpc.k <= Len(df.rows)
  /\ models' = IF ModelData(df.rows[rpc.k]).name \in {<<>>, S_nan} THEN models
               ELSE Append(models, ModelData(df.rows[rpc.k]))
  /\ rpc' = At_("rows", rpc.k + 1)
  /\ UNCHANGED <<now, xvars, pvars, run, avars, df, models_sorted>>

\* the loop has ended: the sort, and json.dump of the report
SortModels ==
  /\ rpc.at = "rows"
  /\ rpc.k > Len(df.rows)
  /\ models_sorted' = SortedDesc(models)
  /\ rpc' = At_("done", 0)
  /\ UNCHANGED <<now, xvars, pvars, run, avars, df, models>>

NextReport == ReadCsv \/ AppendModel \/ SortModels

SpecReport == InitReport /\ [][NextReport]_vars

(***************************************************************************)
(* update_csv_file: the coordinating thread, and the tasks of the pool.    *)
(* A task is named by the index of its row.                                *)
(***************************************************************************)
Init ==
  /\ now = Date(2025, 8, 7)
  /\ ExtractOff
  /\ \E input \in Datasets : PipelineInit(input)
  /\ run = 1 /\ ApiOff /\ ReportOff

\* the tasks a worker thread of the pool is running
Running == {i \in RowIds : tpc[i] \in {"document", "count", "inc"}}
Queued == {i \in RowIds : tpc[i] = "queued"}

\* csv.DictReader and the scan for the rows to update
ReadInput ==
  /\ main = "start"
  /\ rows' = input_file
  /\ models_to_update' = ModelsToUpdate(input_file)
  /\ main' = IF ModelsToUpdate(input_file) = <<>> THEN "collect" ELSE "submit"
  /\ UNCHANGED <<now, others, xvars, tvars, cvars, hvars, input_file, submitted, reported,
                 output_file>>

\* executor.submit(self.fetch_model_update_time, model_name), one entry of
\* models_to_update at a time; after the last one as_completed starts
Submit ==
  /\ main = "submit"
  /\ submitted < Len(models_to_update)
  /\ submitted' = submitted + 1
  /\ tpc' = [tpc EXCEPT ![models_to_update[submitted + 1].index] = "queued"]
  /\ main' = IF submitted + 1 = Len(models_to_update) THEN "collect" ELSE "submit"
  /\ UNCHANGED <<now, others, xvars, api_time, doc_resp, tval, tcounter, tlocal, tres, cvars,
                 hvars, input_file, rows, models_to_update, reported, output_file>>

\* mutant: no return after the structured source gave a date
StartTask_NoReturn(i) ==
  /\ tpc[i] = "queued"
  /\ \A j \in {k \in RowIds : tpc[k] = "queued"} : i <= j
  /\ Cardinality({k \in RowIds : tpc[k] \in {"document", "count", "inc"}}) < max_workers
  /\ \E resp \in ApiResponses :
       /\ api_time' = [api_time EXCEPT ![i] = ApiDate[resp]]
       /\ calls' = [calls EXCEPT ![i] = @ + 1]
       /\ tpc' = [tpc EXCEPT ![i] = "document"]
  /\ UNCHANGED <<now, others, xvars, doc_resp, tval, tcounter, tlocal, tres, cvars, sleeps,
                 doc_gets, mvars>>

\* a free worker takes the oldest queued task and runs it up to the answer of
\* the structured endpoint: a date ends the task's work but for the count
StartTask(i) ==
  /\ tpc[i] = "queued"
  /\ \A j \in Queued : i <= j
  /\ Cardinality(Running) < max_workers
  /\ \E resp \in ApiResponses :
       Let(ApiDate[resp], LAMBDA t :
          /\ api_time' = [api_time EXCEPT ![i] = t]
          /\ calls' = [calls EXCEPT ![i] = @ + 1]
          /\ IF Truthy(t)
             THEN /\ tval' = [tval EXCEPT ![i] = t]
                  /\ tcounter' = [tcounter EXCEPT ![i] = "updated"]
                  /\ tpc' = [tpc EXCEPT ![i] = "count"]
             ELSE /\ tpc' = [tpc EXCEPT ![i] = "document"]
                  /\ UNCHANGED <<tval, tcounter>>)
  /\ UNCHANGED <<now, others, xvars, doc_resp, tlocal, tres, cvars, sleeps, doc_gets, mvars>>

\* mutant: no except branch, a RequestException leaves the task like any other
FetchDocument_NoExcept(i) ==
  /\ tpc[i] = "document"
  /\ sleeps' = [sleeps EXCEPT ![i] = @ + 1]
  /\ \E resp \in DocResponses :
       /\ doc_resp' = [doc_resp EXCEPT ![i] = resp]
       /\ doc_gets' = [doc_gets EXCEPT ![i] = @ + 1]
       /\ IF resp.kind = "page"
          THEN /\ tval' = [tval EXCEPT ![i] = PageDate[resp.doc, now]]
               /\ tcounter' = [tcounter EXCEPT ![i] =
                                 IF Truthy(PageDate[resp.doc, now]) THEN "updated" ELSE "failed"]
               /\ tpc' = [tpc EXCEPT ![i] = "count"]
               /\ UNCHANGED tres
          ELSE /\ tres' = [tres EXCEPT ![i] = Raised]
               /\ tpc' = [tpc EXCEPT ![i] = "finished"]
               /\ UNCHANGED <<tval, tcounter>>
  /\ UNCHANGED <<now, others, xvars, api_time, tlocal, cvars, calls, mvars>>

\* mutant: after a RequestException the document is requested again
FetchDocument_Retry(i) ==
  /\ tpc[i] = "document"
  /\ doc_gets[i] < 3
  /\ sleeps' = [sleeps EXCEPT ![i] = @ + 1]
  /\ \E resp \in DocResponses :
       /\ doc_resp' = [doc_resp EXCEPT ![i] = resp]
       /\ doc_gets' = [doc_gets EXCEPT ![i] = @ + 1]
       /\ CASE resp.kind = "RequestException" ->
                 UNCHANGED <<tval, tcounter, tpc, tres>>
            [] resp.kind = "Exception" ->
                 /\ tres' = [tres EXCEPT ![i] = Raised]
                 /\ tpc' = [tpc EXCEPT ![i] = "finished"]
                 /\ UNCHANGED <<tval, tcounter>>
            [] resp.kind = "page" ->
                 /\ tval' = [tval EXCEPT ![i] = PageDate[resp.doc, now]]
                 /\ tcounter' = [tcounter EXCEPT ![i] =
                                   IF Truthy(PageDate[resp.doc, now]) THEN "updated"
                                   ELSE "failed"]
                 /\ tpc' = [tpc EXCEPT ![i] = "count"]
                 /\ UNCHANGED tres
  /\ UNCHANGED <<now, others, xvars, api_time, tlocal, cvars, calls, mvars>>

\* the try block of fetch_model_update_time: time.sleep(random.uniform(...)),
\* session.get(url), raise_for_status and extract_update_time_from_html; the
\* except branch for a RequestException
FetchDocument(i) ==
  /\ tpc[i] = "document"
  /\ sleeps' = [sleeps EXCEPT ![i] = @ + 1]
  /\ \E resp \in DocResponses :
       /\ doc_resp' = [doc_resp EXCEPT ![i] = resp]
       /\ doc_gets' = [doc_gets EXCEPT ![i] = @ + 1]
       /\ CASE resp.kind = "RequestException" ->
                 /\ tval' = [tval EXCEPT ![i] = None]
                 /\ tcounter' = [tcounter EXCEPT ![i] = "failed"]
                 /\ tpc' = [tpc EXCEPT ![i] = "count"]
                 /\ UNCHANGED tres
            [] resp.kind = "Exception" ->
                 /\ tres' = [tres EXCEPT ![i] = Raised]
                 /\ tpc' = [tpc EXCEPT ![i] = "finished"]
                 /\ UNCHANGED <<tval, tcounter>>
            [] resp.kind = "page" ->
                 Let(PageDate[resp.doc, now], LAMBDA update_time :
                    /\ tval' = [tval EXCEPT ![i] = update_time]
                    /\ tcounter' = [tcounter EXCEPT ![i] =
                                      IF Truthy(update_time) THEN "updated" ELSE "failed"]
                    /\ tpc' = [tpc EXCEPT ![i] = "count"]
                    /\ UNCHANGED tres)
  /\ UNCHANGED <<now, others, xvars, api_time, tlocal, cvars, calls, mvars>>

\* mutant: the counter is read without taking the lock
AcquireRead_NoLock(i) ==
  /\ tpc[i] = "count"
  /\ tlocal' = [tlocal EXCEPT ![i] =
                  IF tcounter[i] = "updated" THEN updated_count ELSE failed_count]
  /\ tpc' = [tpc EXCEPT ![i] = "inc"]
  /\ UNCHANGED <<now, others, xvars, api_time, doc_resp, tval, tcounter, tres, progress_lock,
                 updated_count, failed_count, upd_incs, fail_incs, hvars, mvars>>

\* with self.progress_lock:  and the read of  self.<counter> += 1
AcquireRead(i) ==
  /\ tpc[i] = "count"
  /\ progress_lock = 0
  /\ progress_lock' = i
  /\ tlocal' = [tlocal EXCEPT ![i] =
                  IF tcounter[i] = "updated" THEN updated_count ELSE failed_count]
  /\ tpc' = [tpc EXCEPT ![i] = "inc"]
  /\ UNCHANGED <<now, others, xvars, api_time, doc_resp, tval, tcounter, tres, updated_count,
                 failed_count, upd_incs, fail_incs, hvars, mvars>>

\* the write of  self.<counter> += 1, the end of the with block and the return
WriteRelease(i) ==
  /\ tpc[i] = "inc"
  /\ IF tcounter[i] = "updated"
     THEN /\ updated_count' = tlocal[i] + 1
          /\ upd_incs' = [upd_incs EXCEPT ![i] = @ + 1]
          /\ UNCHANGED <<failed_count, fail_incs>>
     ELSE /\ failed_count' = tlocal[i] + 1
          /\ fail_incs' = [fail_incs EXCEPT ![i] = @ + 1]
          /\ UNCHANGED <<updated_count, upd_incs>>
  /\ progress_lock' = 0
  /\ tres' = [tres EXCEPT ![i] = Returned(tval[i])]
  /\ tpc' = [tpc EXCEPT ![i] = "finished"]
  /\ UNCHANGED <<now, others, xvars, api_time, doc_resp, tval, tcounter, tlocal, hvars, mvars>>

\* mutant: the returned value is merged without  if update_time:
Collect_NoTruthTest(i) ==
  /\ main = "collect"
  /\ tpc[i] = "finished"
  /\ reported[i] = 0
  /\ reported' = [reported EXCEPT ![i] = @ + 1]
  /\ rows' = IF ~tres[i].raised
             THEN [rows EXCEPT ![i].update_time = tres[i].val.v]
             ELSE rows
  /\ UNCHANGED <<now, others, xvars, tvars, cvars, hvars, input_file, models_to_update,
                 submitted, main, output_file>>

\* one turn of  for future in as_completed(future_to_model): the merge of a
\* returned date into its row, or the except branch for a raised exception
Collect(i) ==
  /\ main = "collect"
  /\ tpc[i] = "finished"
  /\ reported[i] = 0
  /\ reported' = [reported EXCEPT ![i] = @ + 1]
  /\ rows' = IF ~tres[i].raised /\ Truthy(tres[i].val)
             THEN [rows EXCEPT ![i].update_time = tres[i].val.v]
             ELSE rows
  /\ UNCHANGED <<now, others, xvars, tvars, cvars, hvars, input_file, models_to_update,
                 submitted, main, output_file>>

\* mutant: the rows are written without waiting for the futures
WriteOutput_Early ==
  /\ main = "collect"
  /\ output_file' = [written |-> TRUE, rows |-> rows]
  /\ main' = "done"
  /\ UNCHANGED <<now, others, xvars, tvars, cvars, hvars, input_file, rows, models_to_update,
                 submitted, reported>>

\* mutant: only the rows that were submitted are written
WriteOutput_OnlySubmitted ==
  /\ main = "collect"
  /\ \A k \in DOMAIN models_to_update : reported[models_to_update[k].index] > 0
  /\ output_file' = [written |-> TRUE,
                     rows |-> [k \in DOMAIN models_to_update |->
                                 rows[models_to_update[k].index]]]
  /\ main' = "done"
  /\ UNCHANGED <<now, others, xvars, tvars, cvars, hvars, input_file, rows, models_to_update,
                 submitted, reported>>

\* as_completed is exhausted: csv.DictWriter writes rows
WriteOutput ==
  /\ main = "collect"
  /\ \A k \in DOMAIN models_to_update : reported[models_to_update[k].index] > 0
  /\ output_file' = [written |-> TRUE, rows |-> rows]
  /\ main' = "done"
  /\ UNCHANGED <<now, others, xvars, tvars, cvars, hvars, input_file, rows, models_to_update,
                 submitted, reported>>

Next ==
  \/ ReadInput
  \/ Submit
  \/ \E i \in RowIds : StartTask(i)
  \/ \E i \in RowIds : FetchDocument(i)
  \/ \E i \in RowIds : AcquireRead(i)
  \/ \E i \in RowIds : WriteRelease(i)
  \/ \E i \in RowIds : Collect(i)
  \/ WriteOutput

Spec == Init /\ [][Next]_vars

\* the threads are scheduled, a request ends within its timeout and a pacing
\* delay within its interval: a step that can be taken is taken
FairSpec == Spec /\ WF_vars(Next)

(***************************************************************************)
(* update_csv_file called again on the same updater: the rows, the pool    *)
(* and the futures are local to a call, the counters are fields of the     *)
(* updater.                                                                *)
(***************************************************************************)
Rerun ==
  /\ main = "done"
  /\ run < MaxRuns
  /\ run' = run + 1
  /\ \E input \in Datasets : input_file' = input
  /\ rows' = <<>>
  /\ models_to_update' = <<>>
  /\ submitted' = 0
  /\ main' = "start"
  /\ tpc' = [i \in RowIds |-> "none"]
  /\ api_time' = [i \in RowIds |-> None]
  /\ doc_resp' = [i \in RowIds |-> NoResponse]
  /\ tval' = [i \in RowIds |-> None]
  /\ tcounter' = [i \in RowIds |-> "none"]
  /\ tlocal' = [i \in RowIds |-> 0]
  /\ tres' = [i \in RowIds |-> Returned(None)]
  /\ upd_incs' = [i \in RowIds |-> 0]
  /\ fail_incs' = [i \in RowIds |-> 0]
  /\ calls' = [i \in RowIds |-> 0]
  /\ sleeps' = [i \in RowIds |-> 0]
  /\ doc_gets' = [i \in RowIds |-> 0]
  /\ reported' = [i \in RowIds |-> 0]
  /\ output_file' = [written |-> FALSE, rows |-> <<>>]
  /\ UNCHANGED <<now, xvars, avars, rvars, progress_lock, updated_count, failed_count>>

NextRerun == Next \/ Rerun

SpecRerun == Init /\ [][NextRerun]_vars

(***************************************************************************)
(* Properties.                                                             *)
(***************************************************************************)
\* row i of the input is eligible: its update_time is empty or '-'
EligibleInput(i) ==
  i \in DOMAIN input_file /\ input_file[i].update_time \in {<<>>, <<"-">>}

\* the task of row i has ended with a date: its outcome is Resolved
Resolved(i) == tpc[i] = "finished" /\ ~tres[i].raised /\ Truthy(tres[i].val)

\* s is YYYY-MM-DD and names a day of the calendar
IsCalendarDate(s) ==
  /\ Len(s) = 10 /\ IsoEnd(s, 1) = 11
  /\ ValidDate(NumVal(SubSeq(s, 1, 4)), NumVal(SubSeq(s, 6, 7)), NumVal(SubSeq(s, 9, 10)))

D_2025_08_06 == <<"2","0","2","5","-","0","8","-","0","6">>
D_2024_09_24 == <<"2","0","2","4","-","0","9","-","2","4">>
D_2023_03_03 == <<"2","0","2","3","-","0","3","-","0","3">>

\* C1: under every interleaving of the pool update_csv_file ends, and when it
\* has ended the future of every eligible row (update_time empty or '-') has
\* been collected exactly once and no other row has been collected; no row is
\* ever collected twice.
C1_EveryEligibleRowReportedOnce ==
  /\ <>(main = "done")
  /\ [](\A i \in RowIds : reported[i] <= 1)
  /\ [](main = "done" =>
          \A i \in RowIds : reported[i] = IF EligibleInput(i) THEN 1 ELSE 0)

\* a finished run in which two eligible rows, one empty and one '-', were collected
C1_Witness ==
  /\ main = "done"
  /\ \E i, j \in RowIds :
       /\ EligibleInput(i) /\ EligibleInput(j)
       /\ input_file[i].update_time = <<>> /\ input_file[j].update_time = <<"-">>
       /\ reported[i] = 1 /\ reported[j] = 1

\* C2: a task whose structured source gave a date makes no pacing delay and
\* no GET of the document endpoint.
C2_ApiDateSkipsDocument ==
  \A i \in RowIds :
    Truthy(api_time[i]) => sleeps[i] = 0 /\ doc_gets[i] = 0 /\ doc_resp[i] = NoResponse

\* a task that ended with the date of the structured source
C2_Witness ==
  \E i \in RowIds :
    Truthy(api_time[i]) /\ tpc[i] = "finished" /\ tres[i] = Returned(api_time[i])

\* C3: after a run, the update_time of every row is the resolved date if the
\* row was eligible and its outcome is Resolved, and its input value otherwise;
\* the rows written are these rows.
C3_MergeOnlyResolved ==
  main = "done" =>
    /\ output_file = [written |-> TRUE, rows |-> rows]
    /\ DOMAIN rows = DOMAIN input_file
    /\ \A i \in DOMAIN input_file :
         rows[i].update_time =
           IF EligibleInput(i) /\ Resolved(i) THEN tres[i].val.v
           ELSE input_file[i].update_time

\* a finished run with a resolved row, and an eligible row that was not resolved
C3_Witness ==
  /\ main = "done"
  /\ \E i, j \in DOMAIN input_file :
       /\ EligibleInput(i) /\ Resolved(i) /\ rows[i].update_time = tres[i].val.v
       /\ EligibleInput(j) /\ ~Resolved(j) /\ rows[j].update_time = <<"-">>

\* C4: a task whose structured source gave no date and whose document fetch
\* raised a RequestException returns None, has incremented failed_count once
\* and updated_count never, and its row keeps its input update_time, in the
\* rows written too.
C4_NetworkErrorIsFailed ==
  \A i \in RowIds :
    (tpc[i] = "finished" /\ ~Truthy(api_time[i]) /\ doc_resp[i] = RequestException) =>
      /\ tres[i] = Returned(None)
      /\ fail_incs[i] = 1 /\ upd_incs[i] = 0
      /\ rows[i].update_time = input_file[i].update_time
      /\ main = "done" => output_file.rows[i].update_time = input_file[i].update_time

\* a finished run with a task whose document fetch raised a RequestException
C4_Witness ==
  /\ main = "done"
  /\ \E i \in RowIds :
       tpc[i] = "finished" /\ doc_resp[i] = RequestException /\ failed_count >= 1

\* C5: an exception raised in a task is caught by update_csv_file and counted
\* as a failure: when the run has ended the output is written, every eligible
\* row has been collected, and failed_count is the number of tasks that ended
\* without a date, those that raised included.
C5_RaisedTaskCountedFailed ==
  main = "done" =>
    /\ output_file.written
    /\ \A i \in RowIds : EligibleInput(i) => reported[i] = 1
    /\ failed_count = Cardinality({i \in RowIds : tpc[i] = "finished" /\ ~Resolved(i)})

\* C6: a document whose only time signal is "Updated about 10 hours ago"
\* gives the current date.
C6_RelativeDurationIsToday ==
  (xpc = "done" /\ html = DocAgo) => xres = Some(strftime_ymd(now))

\* C7: the first method that yields a date decides: the keyword method before
\* the meta tags and the scan, the meta tags before the scan, whatever the
\* order in the document.
C7_HeuristicPriority ==
  xpc = "done" =>
    /\ KeywordHeuristic(html, now).ok =>
         xres = KeywordHeuristic(html, now) /\ xvia = "keyword"
    /\ (~KeywordHeuristic(html, now).ok /\ MetaHeuristic(html).ok) =>
         xres = MetaHeuristic(html) /\ xvia = "meta"
    /\ html \in {DocPhraseIso, DocIsoPhrase} => xres = Some(D_2025_08_06)
    /\ html = DocMetaPhrase => xres = Some(D_2024_09_24)
    /\ html = DocScanMeta => xres = Some(D_2023_03_03)

\* the keyword phrase has decided although the scan yields another date
C7_Witness ==
  /\ xpc = "done" /\ html = DocIsoPhrase /\ xvia = "keyword"
  /\ ScanHeuristic(html, now).ok /\ ScanHeuristic(html, now) # xres

\* C8: a keyword phrase with a month abbreviation and a day and no year gives
\* that day of the current year; "Last updated Aug 6" in 2025 gives 2025-08-06.
C8_NoYearMeansCurrentYear ==
  xpc = "done" =>
    /\ html \in {DocUpdated, DocLastUpdated} =>
         xres = Some(strftime_ymd(Date(now.y, 8, 6))) /\ xvia = "keyword"
    /\ html = DocModified => xres = Some(strftime_ymd(Date(now.y, 3, 15)))
    /\ html = DocUpdatedDec => xres = Some(strftime_ymd(Date(now.y, 12, 31)))
    /\ html = DocTwoTexts => xres = Some(strftime_ymd(Date(now.y, 1, 5)))
    /\ (html = DocFeb29 /\ IsLeap(now.y)) => xres = Some(strftime_ymd(Date(now.y, 2, 29)))
    /\ (html = DocLastUpdated /\ now.y = 2025) => xres = Some(D_2025_08_06)

\* "Last updated Aug 6" read in 2025
C8_Witness ==
  xpc = "done" /\ html = DocLastUpdated /\ now.y = 2025 /\ xvia = "keyword"

\* C9: a date the extractor returns is ten characters YYYY-MM-DD and names a
\* day of the calendar.
C9_ResolvedIsCalendarDate ==
  (xpc = "done" /\ xres.ok) => IsCalendarDate(xres.v)

\* C10: fetch_model_update_time is invoked at most once for each distinct
\* identifier value.
C10_OncePerIdentifier ==
  \A i, j \in DOMAIN rows :
    (i # j /\ calls[i] > 0 /\ calls[j] > 0) => rows[i].name # rows[j].name

\* C10 as amended: fetch_model_update_time is invoked at most once for each
\* row, and only for eligible rows; when the run has ended it has been invoked
\* once for every eligible row, also for rows that carry the same identifier.
C10_OncePerEligibleRow ==
  /\ \A i \in RowIds : calls[i] <= 1 /\ (calls[i] = 1 => EligibleInput(i))
  /\ main = "done" => \A i \in RowIds : EligibleInput(i) => calls[i] = 1

\* a finished run in which two rows with the same identifier were both resolved for
C10_Witness ==
  /\ main = "done"
  /\ \E i, j \in DOMAIN rows :
       i # j /\ rows[i].name = rows[j].name /\ calls[i] = 1 /\ calls[j] = 1

\* C11: the rows written are the rows of the input, in the same order and
\* with the same columns, and every column but update_time has its input
\* value, whatever the order in which the tasks ended; the same holds of the
\* rows in memory while the futures are collected.
C11_SchemaAndOrderKept ==
  /\ main \in {"submit", "collect", "done"} =>
       /\ Len(rows) = Len(input_file)
       /\ \A i \in DOMAIN input_file :
            /\ DOMAIN rows[i] = DOMAIN input_file[i]
            /\ \A col \in DOMAIN input_file[i] \ {"update_time"} :
                 rows[i][col] = input_file[i][col]
  /\ main = "done" =>
       /\ output_file.written
       /\ Len(output_file.rows) = Len(input_file)
       /\ \A i \in DOMAIN input_file :
            /\ DOMAIN output_file.rows[i] = DOMAIN input_file[i]
            /\ \A col \in DOMAIN input_file[i] \ {"update_time"} :
                 output_file.rows[i][col] = input_file[i][col]

\* a finished run on two rows with different names, one not eligible, in
\* which the task of the other row was resolved and merged
C11_Witness ==
  /\ main = "done" /\ Len(input_file) = 2
  /\ input_file[1].name # input_file[2].name
  /\ ~EligibleInput(1) /\ EligibleInput(2) /\ Resolved(2)
  /\ output_file.rows[2].update_time # input_file[2].update_time

\* C12: a task is between the read and the write of a counter only while it
\* holds progress_lock, so the value it read is still the value of the
\* counter; no increment is lost: each counter is the number of increments
\* made, and when the run has ended updated_count is the number of
\* invocations of fetch_model_update_time that returned a date.
C12_CountersUnderLock ==
  /\ \A i \in RowIds :
       tpc[i] = "inc" =>
         /\ progress_lock = i
         /\ tlocal[i] = IF tcounter[i] = "updated" THEN updated_count ELSE failed_count
  /\ updated_count = Cardinality({i \in RowIds : upd_incs[i] = 1})
  /\ failed_count = Cardinality({i \in RowIds : fail_incs[i] = 1})
  /\ \A i \in RowIds : upd_incs[i] + fail_incs[i] <= 1
  /\ main = "done" => updated_count = Cardinality({i \in RowIds : Resolved(i)})

\* two tasks are about to increment the same counter: one holds the lock and
\* has read the counter, the other waits for the lock
C12_Witness ==
  \E i, j \in RowIds :
    /\ i # j /\ tpc[i] = "inc" /\ progress_lock = i
    /\ tpc[j] = "count" /\ tcounter[i] = "updated" /\ tcounter[j] = "updated"

\* C13: the counters are reset when a run starts: when a run has ended,
\* updated_count is the number of tasks of that run that returned a date and
\* failed_count the number of failures counted in that run, also in a second
\* run on the same updater.
C13_CountersPerRun ==
  main = "done" =>
    /\ updated_count = Cardinality({i \in RowIds : Resolved(i)})
    /\ failed_count = Cardinality({i \in RowIds : fail_incs[i] = 1})

D_2024_01_25 == <<"2","0","2","4","-","0","1","-","2","5">>
D_2023_06_01 == <<"2","0","2","3","-","0","6","-","0","1">>
D_2022_11_30 == <<"2","0","2","2","-","1","1","-","3","0">>

\* C14: when lastModified is present in the answer it decides alone: the
\* result is its date if it parses and None if it does not; createdAt counts
\* only when lastModified is absent.
C14_LastModifiedDecidesAlone ==
  (apc = "done" /\ data.kind = "json") =>
    ares = IF data.lastModified.ok THEN FieldDate(data.lastModified)
           ELSE FieldDate(data.createdAt)

\* C14 as amended: the result is the date of lastModified if that field is
\* present and parses; otherwise, also when lastModified is present and does
\* not parse, the date of createdAt if that field is present and parses;
\* otherwise None.  An answer that is no JSON object of status 200 gives None.
C14_LastModifiedElseCreatedAt ==
  apc = "done" =>
    /\ ares = extract_update_time_from_api(data)
    /\ data.kind # "json" => ares = None
    /\ data.kind = "json" =>
         ares = IF FieldDate(data.lastModified).ok THEN FieldDate(data.lastModified)
                ELSE FieldDate(data.createdAt)
    /\ data = ApiJson(Some(T_Jan25), Some(T_Jun01)) => ares = Some(D_2024_01_25)
    /\ data = ApiJson(Some(T_Soon), Some(T_Jun01)) => ares = Some(D_2023_06_01)
    /\ data = ApiJson(Some(T_Feb30), Some(T_DateOnly)) => ares = Some(D_2022_11_30)
    /\ data = ApiJson(None, Some(T_DateOnly)) => ares = Some(D_2022_11_30)
    /\ data = ApiJson(Some(T_Feb30), None) => ares = None
    /\ data = ApiJson(Some(T_Empty), Some(T_Soon)) => ares = None

\* lastModified is present and does not parse, and the date of createdAt is
\* returned
C14_Witness ==
  /\ apc = "done" /\ data = ApiJson(Some(T_Soon), Some(T_Jun01))
  /\ ares = Some(D_2023_06_01)

\* the task of row i fetched a document in which no date was found
NoDateFound(i) ==
  tpc[i] = "finished" /\ doc_resp[i].kind = "page" /\ ~Truthy(PageDate[doc_resp[i].doc, now])

\* C15: a task whose document fetch failed in the network and a task whose
\* document held no date end with outcomes that can be told apart: they
\* differ in what fetch_model_update_time returns or in the counter it
\* increments.
C15_UnresolvedDistinctFromFailed ==
  \A i, j \in RowIds :
    (tpc[i] = "finished" /\ doc_resp[i] = RequestException /\ NoDateFound(j)) =>
      \/ tres[i] # tres[j]
      \/ <<upd_incs[i], fail_incs[i]>> # <<upd_incs[j], fail_incs[j]>>

\* how far a task is: a task only moves forward
Stage(pc) ==
  CASE pc = "none" -> 0 [] pc = "queued" -> 1 [] pc = "document" -> 2
    [] pc = "count" -> 3 [] pc = "inc" -> 4 [] pc = "finished" -> 5

\* C16: an invocation of fetch_model_update_time makes at most one request to
\* the structured endpoint and at most one to the document endpoint; the
\* document request comes after one pacing delay and only when the
\* structured source gave no date; a task never goes back to an earlier
\* stage and a finished task makes no further request.
C16_OnePassNoRetry ==
  /\ [](\A i \in RowIds :
          /\ calls[i] <= 1 /\ doc_gets[i] <= 1 /\ sleeps[i] <= 1
          /\ doc_gets[i] = 1 => sleeps[i] = 1 /\ calls[i] = 1 /\ ~Truthy(api_time[i]))
  /\ [][\A i \in RowIds :
          /\ Stage(tpc'[i]) >= Stage(tpc[i])
          /\ tpc[i] = "finished" =>
               /\ tpc'[i] = "finished"
               /\ calls'[i] = calls[i] /\ doc_gets'[i] = doc_gets[i]
               /\ sleeps'[i] = sleeps[i]]_vars

\* a task that has ended after its one document request failed
C16_Witness ==
  \E i \in RowIds :
    /\ tpc[i] = "finished" /\ doc_resp[i] = RequestException
    /\ calls[i] = 1 /\ sleeps[i] = 1 /\ doc_gets[i] = 1 /\ reported[i] = 1

D_2024_08_06 == <<"2","0","2","4","-","0","8","-","0","6">>

\* C17: "Updated Aug 6, 2024", "Last updated Aug 6, 2024" and
\* "Modified Aug 6, 2024" each give 2024-08-06, whatever the current year.
C17_ExplicitYearKept ==
  (xpc = "done" /\ html \in {DocUpdatedYear, DocLastUpdatedYear, DocModifiedYear}) =>
    xres = Some(D_2024_08_06)

\* C18: when a run on a fresh updater has ended, updated_count + failed_count
\* is the number of eligible rows, and every task has incremented exactly one
\* counter exactly once, a task that ended with an exception included.
C18_CountersSumToEligible ==
  main = "done" =>
    /\ updated_count + failed_count = Cardinality({i \in RowIds : EligibleInput(i)})
    /\ \A i \in RowIds : EligibleInput(i) => upd_incs[i] + fail_incs[i] = 1

\* C19: rows is changed only by a step of the coordinating thread, never by
\* a step of a task; the output is written when no task is queued or running
\* and every future has been collected, so once it is written every eligible
\* row's task has finished and every resolved date is in the rows written.
C19_WrittenAfterAllMerged ==
  /\ [](output_file.written =>
          \A i \in RowIds :
            EligibleInput(i) =>
              /\ tpc[i] = "finished" /\ reported[i] = 1
              /\ Resolved(i) => output_file.rows[i].update_time = tres[i].val.v)
  /\ [][rows' # rows =>
          /\ main \in {"start", "collect"}
          /\ UNCHANGED <<tvars, cvars, hvars>>]_vars
  /\ [][output_file' # output_file =>
          /\ Running = {} /\ Queued = {}
          /\ UNCHANGED <<tvars, cvars, hvars, rows>>]_vars

\* a finished run in which both rows were resolved and the task of the first
\* row counted, and so ended, after the task of the second
C19_Witness ==
  /\ main = "done" /\ Resolved(1) /\ Resolved(2)
  /\ tlocal[1] = 1 /\ tlocal[2] = 0
  /\ output_file.rows[1].update_time = tres[1].val.v
  /\ output_file.rows[2].update_time = tres[2].val.v

\* C20: in the list written as "models" every model whose update time is
\* missing (standardized to "9999-99-99") comes after every model whose
\* update time is a parsed date.
C20_MissingTimesLast ==
  rpc.at = "done" =>
    \A i, j \in DOMAIN models_sorted :
      (/\ models_sorted[i].update_time_standardized = S_Missing
       /\ IsCalendarDate(models_sorted[j].update_time_standardized)) => j < i
====
